---- MODULE Spec2Model ----
(***************************************************************************)
(* SOS alert service (rrt-cf): district resolution and notification        *)
(* dispatch, in the three revisions of the service:                        *)
(*   Strategy A  static bounding boxes        src/unnamed/part_000         *)
(*   Strategy B  reverse geocode with a cache src/functions/index.js 1-405 *)
(*   Strategy C  client-asserted district     src/functions/index.js 407-  *)
(*                                                                         *)
(* Coordinates are integers in units of 1e-5 degree.  JavaScript strings   *)
(* that the code only compares or concatenates are TLA+ strings; strings   *)
(* that are normalized (the upstream's address fields) are sequences of    *)
(* Unicode code points.                                                    *)
(***************************************************************************)
EXTENDS Integers, Sequences, FiniteSets, TLC

VARIABLES
    strategy,   \* which revision of the service is deployed: "A", "B" or "C"
    now,        \* Date.now(), in milliseconds since the process started
    cache,      \* reverseGeocodeCache: cache key -> {district, timestamp}
    others,     \* number of cache entries stored under keys no request below uses
    req,        \* per request: its body, the handler's position and its locals
    probe       \* harness applying the pure functions to drawn inputs

vars == <<strategy, now, cache, others, req, probe>>

(***************************************************************************)
(* JavaScript values                                                       *)
(***************************************************************************)
Undefined == [t |-> "undefined"]
Str(s) == [t |-> "string", v |-> s]
Num(n) == [t |-> "number", v |-> n]
Obj(o) == [t |-> "object", v |-> o]

\* ToBoolean: undefined, "" and 0 are falsy, every object is truthy
Truthy(x) ==
    CASE x.t = "undefined" -> FALSE
      [] x.t = "string" -> Len(x.v) > 0
      [] x.t = "number" -> x.v # 0
      [] OTHER -> TRUE

\* o.f on a value: a missing property (or a property of a primitive) is undefined
Get(o, f) == IF o.t = "object" /\ f \in DOMAIN o.v THEN o.v[f] ELSE Undefined

\* a || b
OrElse(a, b) == IF Truthy(a) THEN a ELSE b

\* o?.f
OptGet(o, f) == IF o.t = "undefined" THEN Undefined ELSE Get(o, f)

(***************************************************************************)
(* Program constants of Strategy B                                         *)
(***************************************************************************)
DEFAULT_DISTRICT == "unknown"
REVERSE_GEOCODE_CACHE_TTL_MS == 12 * 60 * 60 * 1000
CacheGuardLimit == 1000

(***************************************************************************)
(* normalizeDistrictName, on sequences of code points                      *)
(***************************************************************************)
\* printable ASCII without the double quote (34), the backslash (92) and the
\* backquote (96)
AsciiLow == " !"
AsciiMid == "#$%&'()*+,-./0123456789:;<=>?@ABCDEFGHIJKLMNOPQRSTUVWXYZ["
AsciiHigh == "]^_"
AsciiTop == "abcdefghijklmnopqrstuvwxyz{|}~"

IndexIn(tbl, c) == CHOOSE i \in 1..Len(tbl) : SubSeq(tbl, i, i) = c

Occurs(tbl, c) == \E i \in 1..Len(tbl) : SubSeq(tbl, i, i) = c

\* the code point of a one-character ASCII string
CodeOf(c) ==
    IF Occurs(AsciiLow, c) THEN 31 + IndexIn(AsciiLow, c)
    ELSE IF Occurs(AsciiMid, c) THEN 34 + IndexIn(AsciiMid, c)
    ELSE IF Occurs(AsciiHigh, c) THEN 92 + IndexIn(AsciiHigh, c)
    ELSE 96 + IndexIn(AsciiTop, c)

\* the one-character string of an ASCII code point
CharOf(n) ==
    IF n <= 33 THEN SubSeq(AsciiLow, n - 31, n - 31)
    ELSE IF n <= 91 THEN SubSeq(AsciiMid, n - 34, n - 34)
    ELSE IF n <= 95 THEN SubSeq(AsciiHigh, n - 92, n - 92)
    ELSE SubSeq(AsciiTop, n - 96, n - 96)

\* an ASCII string as its code points, and back
Codes(s) == [i \in 1..Len(s) |-> CodeOf(SubSeq(s, i, i))]

RECURSIVE FromCodes(_)
FromCodes(cs) ==
    IF cs = <<>> THEN "" ELSE CharOf(Head(cs)) \o FromCodes(Tail(cs))

\* String.prototype.trim: white space (here: tab, LF, VT, FF, CR, space, NBSP)
IsWhiteSpace(c) == c \in {9, 10, 11, 12, 13, 32, 160}

RECURSIVE TrimLeft(_)
TrimLeft(cs) ==
    IF cs # <<>> /\ IsWhiteSpace(Head(cs)) THEN TrimLeft(Tail(cs)) ELSE cs

RECURSIVE TrimRight(_)
TrimRight(cs) ==
    IF cs # <<>> /\ IsWhiteSpace(cs[Len(cs)])
    THEN TrimRight(SubSeq(cs, 1, Len(cs) - 1))
    ELSE cs

Trim(cs) == TrimRight(TrimLeft(cs))

\* normalize('NFKD') of one code point, for the code points the model draws:
\* a-grave, a-tilde, e-acute, n-tilde, u-diaeresis decompose into the base
\* letter and a combining mark, NBSP into a space, the ligature fi into f i;
\* every other code point (sharp s, o-slash, CJK, ASCII) is its own form.
Nfkd1(c) ==
    CASE c = 224 -> <<97, 768>>
      [] c = 227 -> <<97, 771>>
      [] c = 233 -> <<101, 769>>
      [] c = 241 -> <<110, 771>>
      [] c = 252 -> <<117, 776>>
      [] c = 201 -> <<69, 769>>
      [] c = 160 -> <<32>>
      [] c = 64257 -> <<102, 105>>
      [] OTHER -> <<c>>

RECURSIVE Nfkd(_)
Nfkd(cs) == IF cs = <<>> THEN <<>> ELSE Nfkd1(Head(cs)) \o Nfkd(Tail(cs))

\* .replace(/[\u0300-\u036f]/g, '').replace(/[^\x00-\x7F]/g, '')
StripMarksAndNonAscii(cs) ==
    SelectSeq(SelectSeq(cs, LAMBDA c : ~(c >= 768 /\ c <= 879)),
              LAMBDA c : c <= 127)

\* toLowerCase on ASCII
ToLower(cs) == [i \in 1..Len(cs) |-> IF cs[i] >= 65 /\ cs[i] <= 90 THEN cs[i] + 32 ELSE cs[i]]

IsSlugChar(c) == (c >= 97 /\ c <= 122) \/ (c >= 48 /\ c <= 57)

\* .replace(/[^a-z0-9]+/g, '_'): every maximal run of other characters is one '_'
RECURSIVE CollapseRuns(_)
CollapseRuns(cs) ==
    IF cs = <<>> THEN <<>>
    ELSE IF IsSlugChar(Head(cs)) THEN <<Head(cs)>> \o CollapseRuns(Tail(cs))
    ELSE IF Len(cs) > 1 /\ ~IsSlugChar(cs[2]) THEN CollapseRuns(Tail(cs))
    ELSE <<95>> \o CollapseRuns(Tail(cs))

\* .replace(/^_+|_+$/g, '')
RECURSIVE StripLeadingUnderscores(_)
StripLeadingUnderscores(cs) ==
    IF cs # <<>> /\ Head(cs) = 95 THEN StripLeadingUnderscores(Tail(cs)) ELSE cs

RECURSIVE StripTrailingUnderscores(_)
StripTrailingUnderscores(cs) ==
    IF cs # <<>> /\ cs[Len(cs)] = 95
    THEN StripTrailingUnderscores(SubSeq(cs, 1, Len(cs) - 1))
    ELSE cs

\* mutant of Slug: the underscores at the two ends are kept
SlugKeepEdges(cs) ==
    CollapseRuns(ToLower(StripMarksAndNonAscii(Nfkd(Trim(cs)))))

\* the slug of a non-empty string; <<>> stands for the null result
Slug(cs) ==
    StripTrailingUnderscores(StripLeadingUnderscores(
        CollapseRuns(ToLower(StripMarksAndNonAscii(Nfkd(Trim(cs)))))))

\* normalizeDistrictName(name): `name` is a JavaScript value whose string
\* payload is a sequence of code points; the result is a slug or Null
Null == <<>>

normalizeDistrictName(name) ==
    IF name.t # "string" \/ name.v = <<>> THEN Null ELSE Slug(name.v)

(***************************************************************************)
(* pickDistrictFromAddress (Strategy B)                                    *)
(***************************************************************************)
\* `address` is undefined (data?.address || null) or an object whose fields
\* are strings; the result is a slug or Null
pickDistrictFromAddress(address) ==
    IF ~Truthy(address) THEN Null
    ELSE
      LET districtLike ==
              OrElse(Get(address, "district"),
              OrElse(Get(address, "state_district"),
              OrElse(Get(address, "county"), Get(address, "city_district"))))
          localityLike ==
              OrElse(Get(address, "city"),
              OrElse(Get(address, "town"),
              OrElse(Get(address, "village"),
              OrElse(Get(address, "municipality"), Get(address, "suburb")))))
          stateLike == OrElse(Get(address, "state"), Get(address, "region"))
          countryLike == Get(address, "country")
          directPick == normalizeDistrictName(OrElse(districtLike, localityLike))
          statePick == normalizeDistrictName(stateLike)
          countryPick == normalizeDistrictName(countryLike)
      IN  IF directPick # Null THEN directPick
          ELSE IF statePick # Null THEN statePick \o Codes("_general")
          ELSE IF countryPick # Null THEN countryPick \o Codes("_general")
          ELSE Null

(***************************************************************************)
(* getDistrictFromCoordinates (Strategy A)                                 *)
(***************************************************************************)
\* a bound written in the source as a decimal with two places, in 1e-5 degree
Hundredths(h) == h * 1000

Box(name, north, south, east, west) ==
    [name |-> name, north |-> Hundredths(north), south |-> Hundredths(south),
     east |-> Hundredths(east), west |-> Hundredths(west)]

districtBounds ==
    << Box("bengaluru_urban", 1315, 1285, 7775, 7745),
       Box("mysuru", 1250, 1200, 7680, 7650),
       Box("mangaluru", 1300, 1270, 7500, 7470),
       Box("mumbai", 1930, 1890, 7295, 7275),
       Box("pune", 1865, 1845, 7395, 7375),
       Box("nagpur", 2125, 2105, 7915, 7895),
       Box("new_delhi", 2888, 2840, 7735, 7684),
       Box("gurgaon", 2852, 2838, 7712, 7695),
       Box("noida", 2865, 2845, 7745, 7725),
       Box("chennai", 1323, 1283, 8035, 8010),
       Box("coimbatore", 1110, 1090, 7710, 7690),
       Box("madurai", 995, 985, 7815, 7805),
       Box("kolkata", 2265, 2245, 8845, 8825),
       Box("hyderabad", 1755, 1725, 7865, 7825),
       Box("ahmedabad", 2315, 2295, 7275, 7245),
       Box("surat", 2125, 2115, 7285, 7275),
       Box("jaipur", 2695, 2685, 7585, 7575),
       Box("lucknow", 2695, 2675, 8105, 8085),
       Box("kanpur", 2655, 2635, 8045, 8025),
       Box("thiruvananthapuram", 865, 845, 7695, 7675),
       Box("kochi", 1005, 985, 7635, 7615) >>

\* x >= n and x <= n for a JavaScript value x: false when x is undefined (NaN)
Ge(x, n) == x.t = "number" /\ x.v >= n
Le(x, n) == x.t = "number" /\ x.v <= n

\* latitude <= bounds.north && latitude >= bounds.south && ...
InBounds(latitude, longitude, b) ==
    /\ Le(latitude, b.north) /\ Ge(latitude, b.south)
    /\ Le(longitude, b.east) /\ Ge(longitude, b.west)

\* latitude >= s && latitude <= n && longitude >= w && longitude <= e
InRegion(latitude, longitude, s, n, w, e) ==
    /\ Ge(latitude, Hundredths(s)) /\ Le(latitude, Hundredths(n))
    /\ Ge(longitude, Hundredths(w)) /\ Le(longitude, Hundredths(e))

\* the index of the first rectangle of districtBounds holding the coordinate, or 0
FirstBound(latitude, longitude) ==
    LET hits == {i \in 1..Len(districtBounds) :
                    InBounds(latitude, longitude, districtBounds[i])}
    IN  IF hits = {} THEN 0 ELSE CHOOSE i \in hits : \A j \in hits : i <= j

\* mutant of getDistrictFromCoordinatesA: the Maharashtra rectangle is tried
\* before the Karnataka rectangle
getDistrictMaharashtraFirst(latitude, longitude) ==
    IF InRegion(latitude, longitude, 3770, 3780, -12250, -12230)
    THEN "bengaluru_urban"
    ELSE IF FirstBound(latitude, longitude) # 0
    THEN districtBounds[FirstBound(latitude, longitude)].name
    ELSE IF InRegion(latitude, longitude, 1550, 2200, 7250, 8050)
    THEN "maharashtra_general"
    ELSE IF InRegion(latitude, longitude, 1150, 1850, 7400, 7850)
    THEN "karnataka_general"
    ELSE IF InRegion(latitude, longitude, 800, 1350, 7650, 8050)
    THEN "tamil_nadu_general"
    ELSE IF InRegion(latitude, longitude, 2800, 2900, 7650, 7750)
    THEN "delhi_ncr_general"
    ELSE "india_general"

getDistrictFromCoordinatesA(latitude, longitude) ==
    IF InRegion(latitude, longitude, 3770, 3780, -12250, -12230)
    THEN "bengaluru_urban"
    ELSE IF FirstBound(latitude, longitude) # 0
    THEN districtBounds[FirstBound(latitude, longitude)].name
    ELSE IF InRegion(latitude, longitude, 1150, 1850, 7400, 7850)
    THEN "karnataka_general"
    ELSE IF InRegion(latitude, longitude, 1550, 2200, 7250, 8050)
    THEN "maharashtra_general"
    ELSE IF InRegion(latitude, longitude, 800, 1350, 7650, 8050)
    THEN "tamil_nadu_general"
    ELSE IF InRegion(latitude, longitude, 2800, 2900, 7650, 7750)
    THEN "delhi_ncr_general"
    ELSE "india_general"

(***************************************************************************)
(* The cache key of Strategy B                                             *)
(***************************************************************************)
\* x.toFixed(4) of a number in 1e-5 degree: the sign and the magnitude in 1e-4
\* degree, rounded half up in magnitude ("-0.0000" keeps its sign)
ToFixed4(x) ==
    LET mag == IF x < 0 THEN -x ELSE x
    IN  [neg |-> x < 0, mag |-> (mag + 5) \div 10]

\* `${latitude.toFixed(4)},${longitude.toFixed(4)}`
CacheKey(latitude, longitude) == <<ToFixed4(latitude.v), ToFixed4(longitude.v)>>

\* latitude.toFixed / longitude.toFixed exist only on numbers
CanFormat(latitude, longitude) == latitude.t = "number" /\ longitude.t = "number"

(***************************************************************************)
(* Bounds of the model                                                     *)
(***************************************************************************)
\* entries under keys no followed request uses that the model adds to a small
\* cache (a cache at the guard's limit always may grow)
MaxOthers == 1

\* the requests the model follows, each through one run of the /sos handler,
\* numbered in the order of their arrival; every property below is about one
\* request or about a pair of requests
Requests == {1, 2}

\* request r arrives next: the ones numbered before it have arrived
ArrivesNext(q, r) == q[r].pc = "idle" /\ \A p \in Requests : p < r => q[p].pc # "idle"

\* the instants Date.now() takes: the start, one millisecond later, and a
\* full TTL after the start (so ages 0, 1, TTL - 1 and TTL all occur)
Times == {0, 1, REVERSE_GEOCODE_CACHE_TTL_MS}

(***************************************************************************)
(* Request bodies                                                          *)
(***************************************************************************)
Coord(latitude, longitude) == Obj([latitude |-> latitude, longitude |-> longitude])

\* location values: absent; an object without numeric coordinates; points
LocationsA ==
    { Undefined, Coord(Undefined, Undefined),
      Coord(Num(1297160), Num(7759460)),     \* 12.9716, 77.5946: bengaluru_urban
      Coord(Num(2845000), Num(7700000)),     \* 28.45, 77.00: new_delhi and gurgaon
      Coord(Num(0), Num(0)) }

\* the second point has the first one's cache key, the third has another key
LocationsB ==
    { Undefined, Coord(Undefined, Undefined),
      Coord(Num(1297160), Num(7759460)),
      Coord(Num(1297164), Num(7759460)),
      Coord(Num(1297166), Num(7759460)) }

LocationsC == { Undefined, Coord(Num(1297160), Num(7759460)) }

UserInfo(district) == Obj([district |-> district])

UserInfosC ==
    { Undefined, UserInfo(Undefined), UserInfo(Str("udupi")),
      UserInfo(Str("Udupi North")), UserInfo(Num(5)) }

SosIds == { Undefined, Str("sos1") }

SosTypes == { Undefined, Str("foo"), Str("sos_alert"), Str("stop") }

Body(sos_id, sos_type, location, userInfo) ==
    Obj([sos_id |-> sos_id, sos_type |-> sos_type, location |-> location,
         userInfo |-> userInfo])

Bodies(locations, userInfos) ==
    { Body(i, t, l, u) : i \in SosIds, t \in SosTypes, l \in locations, u \in userInfos }

(***************************************************************************)
(* The upstream's replies (Strategy B)                                     *)
(***************************************************************************)
\* "Sao Paulo!" with a-tilde (227)
SaoPaulo == <<83, 227, 111, 32, 80, 97, 117, 108, 111, 33>>

\* data.address of a parsed reply: absent, or an object of string fields
Addresses ==
    { Undefined,
      Obj([district |-> Str(Codes("Udupi"))]),
      Obj([city |-> Str(SaoPaulo)]),
      Obj([country |-> Str(<<26085, 26412>>)]) }

(***************************************************************************)
(* The handlers' shared pieces                                             *)
(***************************************************************************)
InitRequest ==
    [pc |-> "idle", body |-> Undefined, cacheKey |-> <<>>, cached |-> Undefined,
     district |-> Undefined, source |-> "", fetches |-> 0, sends |-> 0,
     message |-> Undefined, settled |-> Undefined, responses |-> <<>>]

\* !sos_id || !sos_type || !location
MissingRequired(body) ==
    \/ ~Truthy(Get(body, "sos_id"))
    \/ ~Truthy(Get(body, "sos_type"))
    \/ ~Truthy(Get(body, "location"))

\* !['sos_alert', 'stop'].includes(sos_type)
InvalidSosType(body) == Get(body, "sos_type") \notin {Str("sos_alert"), Str("stop")}

MissingFieldsResponse ==
    [status |-> 400, error |-> "Missing required fields",
     required |-> <<"sos_id", "sos_type", "location">>]

InvalidTypeResponse ==
    [status |-> 400, error |-> "Invalid sos_type",
     message |-> "sos_type must be either \"sos_alert\" or \"stop\""]

MissingDistrictResponse(sos_type) ==
    [status |-> 400, error |-> "Missing district in userInfo",
     message |-> IF sos_type = Str("stop")
                 THEN "district is required for stop notification"
                 ELSE "district is required for SOS alert"]

\* the catch block of the handler: 500 with the error's message
FailureResponse(message) ==
    [status |-> 500, error |-> "Failed to send SOS alert", message |-> message]

SuccessResponse(body, district) ==
    IF Get(body, "sos_type") = Str("stop")
    THEN [status |-> 200, success |-> TRUE, message |-> "SOS alert stopped successfully",
          sosId |-> Get(body, "sos_id"), district |-> district]
    ELSE [status |-> 200, success |-> TRUE, message |-> "SOS alert sent successfully",
          topic |-> "district-" \o district, sosId |-> Get(body, "sos_id"),
          district |-> district]

\* mutant of BuildMessage: the stop message keeps the alert's badge
BuildMessageBadgeOne(body, district, t) ==
    [topic |-> "district-" \o district,
     type |-> IF Get(body, "sos_type") = Str("stop") THEN "sos_resolved" ELSE "sos_alert",
     district |-> district, sos_id |-> Get(body, "sos_id"),
     timestamp |-> t, badge |-> 1]

\* stopMessage / message: the fields the dispatch contract is about; the
\* bodies drawn carry no timestamp, so data.timestamp is Date.now()
BuildMessage(body, district, t) ==
    IF Get(body, "sos_type") = Str("stop")
    THEN [topic |-> "district-" \o district, type |-> "sos_resolved",
          district |-> district, sos_id |-> Get(body, "sos_id"),
          timestamp |-> t, badge |-> 0]
    ELSE [topic |-> "district-" \o district, type |-> "sos_alert",
          district |-> district, sos_id |-> Get(body, "sos_id"),
          timestamp |-> t, badge |-> 1]

\* res.status(..).json(..) and return: the handler ends
Respond(q, response) ==
    [q EXCEPT !.pc = "done", !.responses = Append(@, response)]

\* the message is built and admin.messaging().send(message) is awaited
Send(q, district, t) ==
    [q EXCEPT !.pc = "sending", !.district = Str(district),
              !.message = BuildMessage(q.body, district, t), !.sends = @ + 1]

(***************************************************************************)
(* reverseGeocodeDistrict (Strategy B)                                     *)
(***************************************************************************)
\* reverseGeocodeCache.get(cacheKey)
CacheGet(c, key) == IF key \in DOMAIN c THEN c[key] ELSE Undefined

\* reverseGeocodeCache.size, with the entries under keys the model does not follow
CacheSize(c, o) == Cardinality(DOMAIN c) + o

\* mutants of IsFresh: the TTL taken in seconds; the age compared with <=
IsFreshSeconds(cached, t) ==
    cached # Undefined /\ t - cached.timestamp < 12 * 60 * 60

IsFreshInclusive(cached, t) ==
    cached # Undefined /\ t - cached.timestamp <= REVERSE_GEOCODE_CACHE_TTL_MS

\* cached && Date.now() - cached.timestamp < REVERSE_GEOCODE_CACHE_TTL_MS
IsFresh(cached, t) ==
    cached # Undefined /\ t - cached.timestamp < REVERSE_GEOCODE_CACHE_TTL_MS

\* the entry stored under a key
Entry(district, t) == [district |-> district, timestamp |-> t]

\* mutant of GrowthGuard: the cache is cleared one entry later
GrowthGuardLate(c, o) ==
    IF CacheSize(c, o) > CacheGuardLimit + 1
    THEN [cache |-> [k \in {} |-> Entry("", 0)], others |-> 0]
    ELSE [cache |-> c, others |-> o]

\* if (reverseGeocodeCache.size > 1000) reverseGeocodeCache.clear(): the
\* cache and the count of the other entries afterwards
GrowthGuard(c, o) ==
    IF CacheSize(c, o) > CacheGuardLimit
    THEN [cache |-> [k \in {} |-> Entry("", 0)], others |-> 0]
    ELSE [cache |-> c, others |-> o]

\* mutant of CacheSet: the default identifier is stored, not the district
CacheSetDefault(c, key, district, t) ==
    [k \in DOMAIN c \cup {key} |-> IF k = key THEN Entry(DEFAULT_DISTRICT, t) ELSE c[k]]

\* reverseGeocodeCache.set(cacheKey, {district, timestamp: Date.now()})
CacheSet(c, key, district, t) ==
    [k \in DOMAIN c \cup {key} |-> IF k = key THEN Entry(district, t) ELSE c[k]]

\* lines 115-118: the guard, then the insertion
CacheStore(c, o, key, district, t) ==
    LET g == GrowthGuard(c, o)
    IN  [cache |-> CacheSet(g.cache, key, district, t), others |-> g.others]

\* the return of reverseGeocodeDistrict and getDistrictFromCoordinates into
\* the handler (the look-up's locals are gone), which builds the message and
\* sends it
Resolved(q, district, source, t) ==
    Send([q EXCEPT !.source = source, !.cacheKey = <<>>, !.cached = Undefined], district, t)

\* lines 84-98: the key, the cache look-up, and the fetch when it misses
LookupStart(q, latitude, longitude, c, t) ==
    LET key == CacheKey(latitude, longitude)
        cached == CacheGet(c, key)
        p == [q EXCEPT !.cacheKey = key, !.cached = cached]
    IN  IF IsFresh(cached, t)
        THEN Resolved(p, cached.district, "cache", t)
        ELSE [p EXCEPT !.pc = "fetching", !.fetches = @ + 1]

\* the handler of POST /api/sos up to its first suspension
HandleB(q, c, t) ==
    LET location == Get(q.body, "location")
        latitude == Get(location, "latitude")
        longitude == Get(location, "longitude")
    IN  IF MissingRequired(q.body) THEN Respond(q, MissingFieldsResponse)
        ELSE IF InvalidSosType(q.body) THEN Respond(q, InvalidTypeResponse)
        ELSE IF ~CanFormat(latitude, longitude)
        THEN Respond(q, FailureResponse("TypeError: toFixed"))
        ELSE LookupStart(q, latitude, longitude, c, t)

ReceiveB(r, body) ==
    /\ strategy = "B"
    /\ ArrivesNext(req, r)
    /\ req' = [req EXCEPT ![r] = HandleB([req[r] EXCEPT !.body = body], cache, now)]
    /\ UNCHANGED <<strategy, now, cache, others, probe>>

\* await fetch(...) settles: it rejects (network error, timeout), or resolves
\* with a response that is ok or not
FetchSettles(r, outcome) ==
    /\ strategy = "B"
    /\ req[r].pc = "fetching"
    /\ req' = [req EXCEPT ![r] =
                  IF outcome = "ok" THEN [@ EXCEPT !.pc = "parsing"]
                  ELSE Resolved(@, DEFAULT_DISTRICT, "error", now)]
    /\ UNCHANGED <<strategy, now, cache, others, probe>>

\* await response.json() rejects: the body is no JSON, or the timeout aborts it
JsonRejects(r) ==
    /\ strategy = "B"
    /\ req[r].pc = "parsing"
    /\ req' = [req EXCEPT ![r] = Resolved(@, DEFAULT_DISTRICT, "error", now)]
    /\ UNCHANGED <<strategy, now, cache, others, probe>>

\* mutant of JsonSettles: a reply without a usable candidate removes the
\* entry stored under the key
JsonSettlesDropsEntry(r, address) ==
    /\ strategy = "B"
    /\ req[r].pc = "parsing"
    /\ LET district == pickDistrictFromAddress(address)
           stored == CacheStore(cache, others, req[r].cacheKey, FromCodes(district), now)
       IN  IF district # Null
           THEN /\ cache' = stored.cache
                /\ others' = stored.others
                /\ req' = [req EXCEPT ![r] = Resolved(@, FromCodes(district), "nominatim", now)]
           ELSE /\ req' = [req EXCEPT ![r] =
                              Resolved(@, DEFAULT_DISTRICT, "nominatim-fallback", now)]
                /\ cache' = [k \in DOMAIN cache \ {req[r].cacheKey} |-> cache[k]]
                /\ UNCHANGED others
    /\ UNCHANGED <<strategy, now, probe>>

\* await response.json() resolves: lines 111-122
JsonSettles(r, address) ==
    /\ strategy = "B"
    /\ req[r].pc = "parsing"
    /\ LET district == pickDistrictFromAddress(address)
           stored == CacheStore(cache, others, req[r].cacheKey, FromCodes(district), now)
       IN  IF district # Null
           THEN /\ cache' = stored.cache
                /\ others' = stored.others
                /\ req' = [req EXCEPT ![r] = Resolved(@, FromCodes(district), "nominatim", now)]
           ELSE /\ req' = [req EXCEPT ![r] =
                              Resolved(@, DEFAULT_DISTRICT, "nominatim-fallback", now)]
                /\ UNCHANGED <<cache, others>>
    /\ UNCHANGED <<strategy, now, probe>>

\* a look-up of a coordinate the model does not follow (from /api/sos or
\* /api/get-district) reaches lines 114-118 with a district
OtherLookupStores ==
    /\ strategy = "B"
    /\ others < MaxOthers \/ others >= CacheGuardLimit
    /\ cache' = GrowthGuard(cache, others).cache
    /\ others' = GrowthGuard(cache, others).others + 1
    /\ UNCHANGED <<strategy, now, req, probe>>

\* time passes
Tick ==
    /\ strategy = "B"
    /\ \E t \in Times : t > now /\ now' = t
    /\ UNCHANGED <<strategy, cache, others, req, probe>>

(***************************************************************************)
(* The handlers of Strategy A and Strategy C                               *)
(***************************************************************************)
\* POST /api/sos of Strategy A up to its suspension at send
HandleA(q, t) ==
    LET location == Get(q.body, "location")
    IN  IF MissingRequired(q.body) THEN Respond(q, MissingFieldsResponse)
        ELSE IF InvalidSosType(q.body) THEN Respond(q, InvalidTypeResponse)
        ELSE Send(q, getDistrictFromCoordinatesA(Get(location, "latitude"),
                                                 Get(location, "longitude")), t)

ReceiveA(r, body) ==
    /\ strategy = "A"
    /\ ArrivesNext(req, r)
    /\ req' = [req EXCEPT ![r] = HandleA([@ EXCEPT !.body = body], now)]
    /\ UNCHANGED <<strategy, now, cache, others, probe>>

\* mutant of HandleC: the district is checked before the body's fields
HandleCDistrictFirst(q, t) ==
    LET district == OptGet(Get(q.body, "userInfo"), "district")
    IN  IF ~Truthy(district)
        THEN Respond(q, MissingDistrictResponse(Get(q.body, "sos_type")))
        ELSE IF MissingRequired(q.body) THEN Respond(q, MissingFieldsResponse)
        ELSE IF InvalidSosType(q.body) THEN Respond(q, InvalidTypeResponse)
        ELSE IF district.t # "string"
        THEN Respond([q EXCEPT !.district = district],
                     FailureResponse("TypeError: toUpperCase"))
        ELSE Send(q, district.v, t)

\* mutant of HandleC: a missing district defaults to 'udupi', as in /test-push
HandleCDefaultDistrict(q, t) ==
    LET district == OrElse(OptGet(Get(q.body, "userInfo"), "district"), Str("udupi"))
    IN  IF MissingRequired(q.body) THEN Respond(q, MissingFieldsResponse)
        ELSE IF InvalidSosType(q.body) THEN Respond(q, InvalidTypeResponse)
        ELSE IF district.t # "string"
        THEN Respond([q EXCEPT !.district = district],
                     FailureResponse("TypeError: toUpperCase"))
        ELSE Send(q, district.v, t)

\* POST /sos of Strategy C up to its suspension at send: the district is
\* userInfo?.district; district.toUpperCase() exists only on strings
HandleC(q, t) ==
    LET district == OptGet(Get(q.body, "userInfo"), "district")
    IN  IF MissingRequired(q.body) THEN Respond(q, MissingFieldsResponse)
        ELSE IF InvalidSosType(q.body) THEN Respond(q, InvalidTypeResponse)
        ELSE IF ~Truthy(district)
        THEN Respond(q, MissingDistrictResponse(Get(q.body, "sos_type")))
        ELSE IF district.t # "string"
        THEN Respond([q EXCEPT !.district = district],
                     FailureResponse("TypeError: toUpperCase"))
        ELSE Send(q, district.v, t)

ReceiveC(r, body) ==
    /\ strategy = "C"
    /\ ArrivesNext(req, r)
    /\ req' = [req EXCEPT ![r] = HandleC([@ EXCEPT !.body = body], now)]
    /\ UNCHANGED <<strategy, now, cache, others, probe>>

(***************************************************************************)
(* The dispatch, the same in the three revisions                           *)
(***************************************************************************)
\* what await admin.messaging().send(message) settles with
SendOutcomes ==
    { [ok |-> TRUE, value |-> "projects/p/messages/1"],
      [ok |-> FALSE, value |-> "messaging/server-unavailable"] }

\* mutant of AfterSend: a failed send is tried once more
AfterSendRetry(q, outcome) ==
    IF outcome.ok
    THEN Respond([q EXCEPT !.settled = outcome], SuccessResponse(q.body, q.district.v))
    ELSE IF q.sends < 2 THEN [q EXCEPT !.sends = @ + 1]
    ELSE Respond([q EXCEPT !.settled = outcome], FailureResponse(outcome.value))

\* the handler after the send settled: res.json(..) or the catch block
AfterSend(q, outcome) ==
    IF outcome.ok
    THEN Respond([q EXCEPT !.settled = outcome], SuccessResponse(q.body, q.district.v))
    ELSE Respond([q EXCEPT !.settled = outcome], FailureResponse(outcome.value))

SendSettles(r, outcome) ==
    /\ req[r].pc = "sending"
    /\ req' = [req EXCEPT ![r] = AfterSend(@, outcome)]
    /\ UNCHANGED <<strategy, now, cache, others, probe>>

(***************************************************************************)
(* The service                                                             *)
(***************************************************************************)
NoProbe == [latitude |-> 0, longitude |-> 0, district |-> ""]

Init ==
    /\ strategy \in {"A", "B", "C"}
    /\ now = 0
    /\ cache = [k \in {} |-> Entry("", 0)]
    /\ others \in (IF strategy = "B" THEN {0, CacheGuardLimit} ELSE {0})
    /\ req = [r \in Requests |-> InitRequest]
    /\ probe = NoProbe

Next ==
    \/ \E r \in Requests : \E body \in Bodies(LocationsA, {Undefined}) : ReceiveA(r, body)
    \/ \E r \in Requests : \E body \in Bodies(LocationsB, {Undefined}) : ReceiveB(r, body)
    \/ \E r \in Requests : \E body \in Bodies(LocationsC, UserInfosC) : ReceiveC(r, body)
    \/ \E r \in Requests : \E outcome \in {"rejected", "not-ok", "ok"} : FetchSettles(r, outcome)
    \/ \E r \in Requests : JsonRejects(r)
    \/ \E r \in Requests : \E address \in Addresses : JsonSettles(r, address)
    \/ \E r \in Requests : \E outcome \in SendOutcomes : SendSettles(r, outcome)
    \/ OtherLookupStores
    \/ Tick

Spec == Init /\ [][Next]_vars

(***************************************************************************)
(* Strategy A's resolver applied to drawn coordinates                      *)
(***************************************************************************)
\* every bound of the source and the coordinates 1e-5 degree on either side
Around(values) == UNION {{v - 1, v, v + 1} : v \in values}

ProbeLatitudes ==
    Around({districtBounds[i].north : i \in 1..Len(districtBounds)}
           \cup {districtBounds[i].south : i \in 1..Len(districtBounds)}
           \cup {Hundredths(h) : h \in {3770, 3780, 1150, 1850, 1550, 2200,
                                        800, 1350, 2800, 2900}})

ProbeLongitudes ==
    Around({districtBounds[i].east : i \in 1..Len(districtBounds)}
           \cup {districtBounds[i].west : i \in 1..Len(districtBounds)}
           \cup {Hundredths(h) : h \in {-12250, -12230, 7400, 7850, 7250, 8050,
                                        7650, 7750}})

InitGeo ==
    /\ strategy = "A"
    /\ now = 0
    /\ cache = [k \in {} |-> Entry("", 0)]
    /\ others = 0
    /\ req = [r \in Requests |-> InitRequest]
    /\ probe \in {[latitude |-> la, longitude |-> lo, district |-> ""] :
                    la \in ProbeLatitudes, lo \in ProbeLongitudes}

\* POST /api/get-district of Strategy A with a valid body: the resolver's answer
ProbeResolve ==
    /\ probe.district = ""
    /\ probe' = [probe EXCEPT !.district =
                    getDistrictFromCoordinatesA(Num(probe.latitude), Num(probe.longitude))]
    /\ UNCHANGED <<strategy, now, cache, others, req>>

NextGeo == ProbeResolve

SpecGeo == InitGeo /\ [][NextGeo]_vars

(***************************************************************************)
(* normalizeDistrictName applied to drawn names                            *)
(***************************************************************************)
\* the longest name drawn
MaxNameLen == 3

\* space, '!', '0', 'A', '_', 'a', NBSP, sharp s, a-tilde, a combining
\* tilde, a CJK ideograph, the ligature fi
NameAlphabet == {32, 33, 48, 65, 95, 97, 160, 223, 227, 771, 26085, 64257}

NamesUpTo(n) == UNION {[1..k -> NameAlphabet] : k \in 0..n}

\* the values normalizeDistrictName is called with: strings, and the
\* non-strings undefined, 0, 5 and an object
NameValues ==
    {Str(cs) : cs \in NamesUpTo(MaxNameLen) \cup {SaoPaulo}}
        \cup {Undefined, Num(0), Num(5), Obj([name |-> Str(Codes("udupi"))])}

InitNorm ==
    /\ strategy = "B"
    /\ now = 0
    /\ cache = [k \in {} |-> Entry("", 0)]
    /\ others = 0
    /\ req = [r \in Requests |-> InitRequest]
    /\ probe \in {[name |-> v, calls |-> 0, slug |-> Null, again |-> Null] :
                    v \in NameValues}

\* normalizeDistrictName(name)
NormalizeName ==
    /\ probe.calls = 0
    /\ probe' = [probe EXCEPT !.calls = 1, !.slug = normalizeDistrictName(probe.name)]
    /\ UNCHANGED <<strategy, now, cache, others, req>>

\* normalizeDistrictName of the slug the first call returned
NormalizeSlug ==
    /\ probe.calls = 1
    /\ probe.slug # Null
    /\ probe' = [probe EXCEPT !.calls = 2,
                               !.again = normalizeDistrictName(Str(probe.slug))]
    /\ UNCHANGED <<strategy, now, cache, others, req>>

NextNorm == NormalizeName \/ NormalizeSlug

SpecNorm == InitNorm /\ [][NextNorm]_vars

(***************************************************************************)
(* pickDistrictFromAddress applied to drawn addresses                      *)
(***************************************************************************)
\* a field of data.address: absent, a name without letters or digits, a name
FieldValues(name) == {Undefined, Str(Codes("!!!")), Str(Codes(name))}

ProbeAddresses ==
    {Undefined} \cup
    { Obj([district |-> d, city |-> c, state |-> s, country |-> n]) :
        d \in FieldValues("Udupi"), c \in FieldValues("Pune"),
        s \in FieldValues("Goa"), n \in FieldValues("India") }

InitPick ==
    /\ strategy = "B"
    /\ now = 0
    /\ cache = [k \in {} |-> Entry("", 0)]
    /\ others = 0
    /\ req = [r \in Requests |-> InitRequest]
    /\ probe \in {[address |-> a, calls |-> 0, district |-> Null] : a \in ProbeAddresses}

\* pickDistrictFromAddress(data?.address || null)
PickDistrict ==
    /\ probe.calls = 0
    /\ probe' = [probe EXCEPT !.calls = 1,
                               !.district = pickDistrictFromAddress(probe.address)]
    /\ UNCHANGED <<strategy, now, cache, others, req>>

NextPick == PickDistrict

SpecPick == InitPick /\ [][NextPick]_vars

(***************************************************************************)
(* Vocabulary of the properties                                            *)
(***************************************************************************)
TwelveHours == 12 * 60 * 60 * 1000

\* the request passed the required-fields check and the sos_type check
Validated(q) ==
    /\ q.pc # "idle"
    /\ Truthy(Get(q.body, "sos_id")) /\ Truthy(Get(q.body, "location"))
    /\ Get(q.body, "sos_type") \in {Str("sos_alert"), Str("stop")}

\* the coordinate of the request's body and its cache key
LatitudeOf(q) == Get(Get(q.body, "location"), "latitude")
LongitudeOf(q) == Get(Get(q.body, "location"), "longitude")
HasNumbers(q) == LatitudeOf(q).t = "number" /\ LongitudeOf(q).t = "number"
KeyOf(q) == CacheKey(LatitudeOf(q), LongitudeOf(q))

\* the request's district resolution returned a district
HasResolved(q) == q.source # ""

\* request r is received in this step; its resolution returns in this step
Arrives(r) == req[r].pc = "idle" /\ req'[r].pc # "idle"
Resolves(r) == req[r].source = "" /\ req'[r].source # ""

(***************************************************************************)
(* C1  Under Strategy B district resolution returns a district for every   *)
(* location that passes the /api/sos validation and never raises to its    *)
(* caller.  Stated as the claim: every validated request that has left the *)
(* resolver holds a district string.  The code raises a TypeError at       *)
(* latitude.toFixed(4) when a coordinate is not a number.                  *)
(***************************************************************************)
C1_ResolutionAlwaysAnswers ==
    \A r \in Requests :
        (strategy = "B" /\ Validated(req[r]) /\ req[r].pc \in {"sending", "done"})
            => (req[r].district.t = "string" /\ HasResolved(req[r]))

(***************************************************************************)
(* C2  Any two resolutions of the same coordinate less than 12 hours apart *)
(* return the same district, whatever the upstream does in between.        *)
(* Stated as the claim, the time of a resolution being the Date.now() its   *)
(* handler puts into the message right after it.                           *)
(***************************************************************************)
C2_SameDistrictWithinTTL ==
    strategy = "B" =>
        \A r1, r2 \in Requests :
            ( /\ HasResolved(req[r1]) /\ HasResolved(req[r2])
              /\ KeyOf(req[r1]) = KeyOf(req[r2])
              /\ req[r2].message.timestamp - req[r1].message.timestamp \in 0..(TwelveHours - 1) )
                => req[r1].district = req[r2].district

(***************************************************************************)
(* C2 as amended: two resolutions of the same coordinate return the same   *)
(* district whenever both are served by the same cache entry.  The         *)
(* resolution that stores an entry returns the district it stores, every   *)
(* resolution answered from the cache returns the district of the entry    *)
(* then stored under its key, and an entry's district never changes but by *)
(* a resolution of that key storing a new entry or by the growth guard     *)
(* removing it.                                                            *)
(***************************************************************************)
C2_SameEntrySameDistrict ==
    [][ /\ \A r \in Requests :
            (strategy = "B" /\ Resolves(r)) =>
                LET k == KeyOf(req'[r]) IN
                /\ req'[r].source = "cache" =>
                       /\ k \in DOMAIN cache
                       /\ req'[r].district = Str(cache[k].district)
                       /\ cache' = cache
                /\ req'[r].source = "nominatim" =>
                       /\ k \in DOMAIN cache'
                       /\ req'[r].district = Str(cache'[k].district)
        /\ \A k \in DOMAIN cache :
            (k \in DOMAIN cache' /\ cache'[k] # cache[k]) =>
                \E r \in Requests :
                    /\ Resolves(r) /\ req'[r].source = "nominatim"
                    /\ KeyOf(req'[r]) = k
      ]_vars

\* two resolutions of one key, the first storing the entry, the second
\* answered from it a millisecond or more later
C2_Witness ==
    /\ strategy = "B"
    /\ \E r1, r2 \in Requests :
        /\ req[r1].source = "nominatim" /\ req[r2].source = "cache"
        /\ KeyOf(req[r1]) = KeyOf(req[r2])
        /\ LatitudeOf(req[r1]) # LatitudeOf(req[r2])
        /\ req[r1].district = req[r2].district
        /\ req[r1].message.timestamp = 0 /\ req[r2].message.timestamp = 1

(***************************************************************************)
(* C3  Under Strategy A every coordinate inside a named rectangle of       *)
(* districtBounds resolves to that rectangle's identifier.  Stated as the  *)
(* claim; the code returns new_delhi inside gurgaon and noida where they   *)
(* intersect new_delhi, which is listed first.                             *)
(***************************************************************************)
C3_InsideBoxGetsBoxName ==
    probe.district # "" =>
        \A i \in 1..Len(districtBounds) :
            InBounds(Num(probe.latitude), Num(probe.longitude), districtBounds[i])
                => probe.district = districtBounds[i].name

(***************************************************************************)
(* C4  Under Strategy B a look-up that finds an entry under its rounded    *)
(* coordinate with age strictly less than 12 hours returns that entry's    *)
(* district with provenance 'cache' and issues no upstream call.           *)
(***************************************************************************)
C4_FreshEntryAnswers ==
    [][ \A r \in Requests :
            ( /\ strategy = "B" /\ Arrives(r)
              /\ Validated(req'[r]) /\ HasNumbers(req'[r])
              /\ KeyOf(req'[r]) \in DOMAIN cache
              /\ now - cache[KeyOf(req'[r])].timestamp < TwelveHours )
            => /\ req'[r].source = "cache"
               /\ req'[r].district = Str(cache[KeyOf(req'[r])].district)
               /\ req'[r].fetches = 0
               /\ req'[r].pc = "sending"
               /\ cache' = cache
      ]_vars

\* a second resolution answered, without an upstream call, from an entry one
\* millisecond short of 12 hours old that the first resolution stored
C4_Witness ==
    /\ strategy = "B"
    /\ \E r1, r2 \in Requests :
        /\ req[r1].source = "nominatim" /\ req[r1].message.timestamp = 1
        /\ req[r2].source = "cache" /\ req[r2].message.timestamp = TwelveHours
        /\ req[r2].fetches = 0
        /\ KeyOf(req[r1]) = KeyOf(req[r2])
        /\ req[r2].district = req[r1].district

(***************************************************************************)
(* C5  Under Strategy B an entry whose age is 12 hours or more is never    *)
(* returned: a look-up that finds one issues a fresh upstream call and     *)
(* returns that call's outcome: the new district, stored with a new        *)
(* timestamp, when the reply yields one, and 'unknown' otherwise.          *)
(***************************************************************************)
C5_StaleEntryRefetched ==
    [][ \A r \in Requests :
          /\ ( /\ strategy = "B" /\ Arrives(r)
               /\ Validated(req'[r]) /\ HasNumbers(req'[r])
               /\ KeyOf(req'[r]) \in DOMAIN cache
               /\ now - cache[KeyOf(req'[r])].timestamp >= TwelveHours )
             => /\ req'[r].pc = "fetching"
                /\ req'[r].fetches = 1
                /\ req'[r].cached = cache[KeyOf(req'[r])]
                /\ ~HasResolved(req'[r])
          /\ ( /\ strategy = "B" /\ Resolves(r)
               /\ req[r].cached # Undefined /\ req[r].pc \in {"fetching", "parsing"} )
             => \/ /\ req'[r].source = "nominatim"
                   /\ cache'[KeyOf(req'[r])] =
                          [district |-> req'[r].district.v, timestamp |-> now]
                \/ /\ req'[r].source \in {"error", "nominatim-fallback"}
                   /\ req'[r].district = Str("unknown")
      ]_vars

\* a look-up found an entry exactly 12 hours old and is fetching
C5_Witness ==
    /\ strategy = "B"
    /\ \E r \in Requests :
        /\ req[r].pc = "fetching"
        /\ req[r].cached # Undefined
        /\ now - req[r].cached.timestamp = TwelveHours

(***************************************************************************)
(* C6  Every request receives exactly one response, 400, 200 or 500; a 500 *)
(* is sent only when a publish call was attempted for the request and      *)
(* failed, and every request that passes validation leads to exactly one   *)
(* dispatch attempt.  Stated as the claim; validation includes, under      *)
(* Strategy C, the presence of the district.                               *)
(***************************************************************************)
PassesValidation(q) ==
    /\ Validated(q)
    /\ strategy = "C" => Truthy(OptGet(Get(q.body, "userInfo"), "district"))

C6_OneResponseOneDispatch ==
    \A r \in Requests :
        /\ req[r].pc = "done" =>
              /\ Len(req[r].responses) = 1
              /\ req[r].responses[1].status \in {400, 200, 500}
              /\ req[r].responses[1].status = 500 =>
                    (req[r].sends = 1 /\ req[r].settled # Undefined /\ ~req[r].settled.ok)
              /\ PassesValidation(req[r]) => req[r].sends = 1
        /\ req[r].pc # "done" => req[r].responses = <<>>

(***************************************************************************)
(* C7  A request never causes more than one publish call: a failed publish *)
(* is not retried and is answered 500 with the transport error's message;  *)
(* alert ids are not deduplicated: a request that reaches the dispatch     *)
(* publishes, whatever other requests carried the same sos_id.             *)
(***************************************************************************)
C7_NoRetryNoDedup ==
    \A r \in Requests :
        /\ req[r].sends <= 1
        /\ (req[r].settled # Undefined /\ ~req[r].settled.ok) =>
              /\ req[r].pc = "done"
              /\ req[r].sends = 1
              /\ req[r].responses =
                    <<[status |-> 500, error |-> "Failed to send SOS alert",
                       message |-> req[r].settled.value]>>
        /\ (PassesValidation(req[r]) /\ req[r].district.t = "string") =>
              /\ req[r].sends = 1
              /\ req[r].message.sos_id = Get(req[r].body, "sos_id")

\* two requests with one sos_id each published once; one publish failed
C7_Witness ==
    \E r1, r2 \in Requests :
        /\ r1 # r2
        /\ req[r1].pc = "done" /\ req[r2].pc = "done"
        /\ req[r1].message # Undefined /\ req[r2].message # Undefined
        /\ req[r1].message.sos_id = req[r2].message.sos_id
        /\ req[r1].message.type = req[r2].message.type
        /\ req[r1].message.topic = req[r2].message.topic
        /\ req[r1].sends = 1 /\ req[r2].sends = 1
        /\ req[r1].settled.ok /\ ~req[r2].settled.ok
        /\ req[r2].responses[1].status = 500

(***************************************************************************)
(* C8  A request lacking sos_id, sos_type or location is answered 400 with *)
(* required exactly ['sos_id','sos_type','location'], and one whose        *)
(* sos_type is neither 'sos_alert' nor 'stop' is answered 400 'Invalid     *)
(* sos_type'; nothing else happens: no district resolution, no upstream    *)
(* call, no cache change, no publish call.  The missing-field check comes  *)
(* before the sos_type check, which comes before any district check.       *)
(***************************************************************************)
LacksRequired(body) ==
    \/ Get(body, "sos_id") \in {Undefined, Str("")}
    \/ Get(body, "sos_type") \in {Undefined, Str("")}
    \/ Get(body, "location") = Undefined

NothingElseHappened(q) ==
    /\ q.pc = "done"
    /\ q.district = Undefined /\ q.source = "" /\ q.cacheKey = <<>>
    /\ q.fetches = 0 /\ q.sends = 0 /\ q.message = Undefined

C8_InvalidRequestsOnlyAnswered ==
    [][ \A r \in Requests :
          Arrives(r) =>
            /\ LacksRequired(req'[r].body) =>
                  /\ req'[r].responses =
                        <<[status |-> 400, error |-> "Missing required fields",
                           required |-> <<"sos_id", "sos_type", "location">>]>>
                  /\ NothingElseHappened(req'[r])
                  /\ UNCHANGED <<cache, others>>
            /\ ( /\ ~LacksRequired(req'[r].body)
                 /\ Get(req'[r].body, "sos_type") \notin {Str("sos_alert"), Str("stop")} ) =>
                  /\ Len(req'[r].responses) = 1
                  /\ req'[r].responses[1].status = 400
                  /\ req'[r].responses[1].error = "Invalid sos_type"
                  /\ NothingElseHappened(req'[r])
                  /\ UNCHANGED <<cache, others>>
      ]_vars

\* under Strategy C a request without sos_id, with an invalid sos_type and
\* without a district was answered with the required-fields list, and one
\* with an invalid sos_type and without a district with 'Invalid sos_type'
C8_Witness ==
    /\ strategy = "C"
    /\ \E r1, r2 \in Requests :
        /\ req[r1].pc = "done" /\ req[r2].pc = "done"
        /\ Get(req[r1].body, "sos_id") = Undefined
        /\ Get(req[r1].body, "sos_type") = Str("foo")
        /\ Get(req[r1].body, "userInfo") = Undefined
        /\ req[r1].responses[1].error = "Missing required fields"
        /\ Get(req[r2].body, "sos_id") = Str("sos1")
        /\ Get(req[r2].body, "sos_type") = Str("foo")
        /\ Get(req[r2].body, "location") # Undefined
        /\ Get(req[r2].body, "userInfo") = Undefined
        /\ req[r2].responses[1].error = "Invalid sos_type"

(***************************************************************************)
(* C9  Under Strategy C a request of either kind, with its required fields *)
(* present, whose userInfo carries no district is answered 400 citing the  *)
(* missing district and no publish call is made; the server never resolves *)
(* a district itself: a request's district is the one its userInfo carries.*)
(***************************************************************************)
C9_MissingDistrictIsClientError ==
    strategy = "C" =>
        /\ DOMAIN cache = {}
        /\ \A r \in Requests :
            /\ req[r].fetches = 0 /\ req[r].source = ""
            /\ req[r].district # Undefined =>
                  req[r].district = OptGet(Get(req[r].body, "userInfo"), "district")
            /\ ( /\ Validated(req[r])
                 /\ OptGet(Get(req[r].body, "userInfo"), "district") = Undefined ) =>
                  /\ req[r].pc = "done"
                  /\ Len(req[r].responses) = 1
                  /\ req[r].responses[1].status = 400
                  /\ req[r].responses[1].error = "Missing district in userInfo"
                  /\ req[r].sends = 0 /\ req[r].message = Undefined
                  /\ req[r].district = Undefined

\* a stop request and an alert request without a district, both answered 400
C9_Witness ==
    /\ strategy = "C"
    /\ \E r1, r2 \in Requests :
        /\ Get(req[r1].body, "sos_type") = Str("stop")
        /\ Get(req[r1].body, "userInfo") = Undefined
        /\ Get(req[r2].body, "sos_type") = Str("sos_alert")
        /\ Get(req[r2].body, "userInfo") = UserInfo(Undefined)
        /\ req[r1].pc = "done" /\ req[r2].pc = "done"
        /\ req[r1].responses[1].error = "Missing district in userInfo"
        /\ req[r2].responses[1].error = "Missing district in userInfo"
        /\ req[r1].responses[1].message = "district is required for stop notification"

(***************************************************************************)
(* C10  Each district that builds a publish topic or is returned in a 200  *)
(* response is a normalized identifier: non-empty, ASCII-only, lowercase,  *)
(* alphanumeric words joined by single underscores.  Stated as the claim;  *)
(* under Strategy C the district is the client's string as it came.        *)
(***************************************************************************)
IsWordChar(c) == Occurs("abcdefghijklmnopqrstuvwxyz0123456789", c)

IsNormalized(d) ==
    /\ Len(d) > 0
    /\ \A i \in 1..Len(d) :
          LET c == SubSeq(d, i, i) IN
          \/ IsWordChar(c)
          \/ /\ c = "_"
             /\ i > 1 /\ i < Len(d)
             /\ IsWordChar(SubSeq(d, i - 1, i - 1))
             /\ IsWordChar(SubSeq(d, i + 1, i + 1))

C10_DistrictsNormalized ==
    \A r \in Requests :
        /\ req[r].message # Undefined =>
              /\ IsNormalized(req[r].message.district)
              /\ req[r].message.topic = "district-" \o req[r].message.district
        /\ \A i \in 1..Len(req[r].responses) :
              req[r].responses[i].status = 200 =>
                  IsNormalized(req[r].responses[i].district)

\* the same statement for Strategies A and B alone
DistrictsNormalizedAB == strategy \in {"A", "B"} => C10_DistrictsNormalized

(***************************************************************************)
(* C11  Every message handed to the publish capability by the /sos handler *)
(* has topic 'district-' followed by its data.district; its data.type is   *)
(* 'sos_alert' exactly when the request's sos_type is 'sos_alert' and      *)
(* 'sos_resolved' exactly when it is 'stop'; the iOS badge is 1 for the    *)
(* former and 0 for the latter; and the 200 response reports the district  *)
(* that was used in the topic.                                             *)
(***************************************************************************)
C11_MessageMatchesRequest ==
    \A r \in Requests :
        req[r].message # Undefined =>
            LET m == req[r].message
                sos_type == Get(req[r].body, "sos_type")
            IN  /\ req[r].sends = 1
                /\ m.topic = "district-" \o m.district
                /\ m.type = "sos_alert" <=> sos_type = Str("sos_alert")
                /\ m.type = "sos_resolved" <=> sos_type = Str("stop")
                /\ m.type \in {"sos_alert", "sos_resolved"}
                /\ m.badge = (IF m.type = "sos_alert" THEN 1 ELSE 0)
                /\ \A i \in 1..Len(req[r].responses) :
                      req[r].responses[i].status = 200 =>
                          /\ "district-" \o req[r].responses[i].district = m.topic
                          /\ req[r].responses[i].sosId = m.sos_id

\* an alert and a stop for one district were both published and answered 200
C11_Witness ==
    \E r1, r2 \in Requests :
        /\ Get(req[r1].body, "sos_type") = Str("sos_alert")
        /\ Get(req[r2].body, "sos_type") = Str("stop")
        /\ req[r1].message # Undefined /\ req[r2].message # Undefined
        /\ req[r1].message.badge = 1 /\ req[r2].message.badge = 0
        /\ req[r1].message.topic = req[r2].message.topic
        /\ req[r1].pc = "done" /\ req[r2].pc = "done"
        /\ req[r1].responses[1].status = 200 /\ req[r2].responses[1].status = 200
        /\ req[r1].responses[1].district = req[r2].responses[1].district

(***************************************************************************)
(* C12  normalizeDistrictName is idempotent on its results: a non-null     *)
(* slug is non-empty, contains only a-z, 0-9 and '_', has no leading or    *)
(* trailing '_' and no two consecutive '_', and normalizing it returns it; *)
(* for inputs that are empty, non-string, or contain no ASCII alphanumeric *)
(* after diacritic stripping, the result is null.                          *)
(***************************************************************************)
\* the name, decomposed and stripped of marks and non-ASCII, has a letter or a digit
HasAsciiAlphanumeric(cs) ==
    \E i \in 1..Len(StripMarksAndNonAscii(Nfkd(cs))) :
        LET c == StripMarksAndNonAscii(Nfkd(cs))[i]
        IN  (c >= 48 /\ c <= 57) \/ (c >= 65 /\ c <= 90) \/ (c >= 97 /\ c <= 122)

WellFormedSlug(cs) ==
    /\ Len(cs) > 0
    /\ \A i \in 1..Len(cs) :
          (cs[i] >= 97 /\ cs[i] <= 122) \/ (cs[i] >= 48 /\ cs[i] <= 57) \/ cs[i] = 95
    /\ cs[1] # 95 /\ cs[Len(cs)] # 95
    /\ \A i \in 1..(Len(cs) - 1) : ~(cs[i] = 95 /\ cs[i + 1] = 95)

C12_NormalizeIdempotent ==
    /\ probe.calls >= 1 =>
          /\ probe.slug # Null => WellFormedSlug(probe.slug)
          /\ ( \/ probe.name.t # "string"
               \/ probe.name.v = <<>>
               \/ ~HasAsciiAlphanumeric(probe.name.v) ) => probe.slug = Null
          /\ (probe.name.t = "string" /\ HasAsciiAlphanumeric(probe.name.v))
                => probe.slug # Null
    /\ probe.calls = 2 => probe.again = probe.slug

\* "Sao Paulo!" with a-tilde became sao_paulo, and sao_paulo itself again
C12_Witness ==
    /\ probe.calls = 2
    /\ probe.name = Str(SaoPaulo)
    /\ probe.slug = Codes("sao_paulo")
    /\ probe.again = Codes("sao_paulo")

\* a name of punctuation, white space and non-ASCII letters only gave null
C12_WitnessNull ==
    /\ probe.calls = 1
    /\ probe.name = Str(<<33, 223, 26085>>)
    /\ probe.slug = Null

(***************************************************************************)
(* C13  Under Strategy B, on a successful upstream reply the district is   *)
(* chosen by trying the candidates in order (the district-style field, the *)
(* city-style field, the state field suffixed '_general', the country      *)
(* field suffixed '_general'), normalizing every candidate and taking the  *)
(* first whose normalization is a non-empty slug.  Stated as the claim;    *)
(* the code normalizes districtLike || localityLike, so a district field   *)
(* that normalizes to empty hides the city field.                          *)
(***************************************************************************)
Suffixed(slug) == IF slug = Null THEN Null ELSE slug \o Codes("_general")

\* the candidates of an address in the order of the claim, each normalized
CandidateSlugs(address) ==
    << normalizeDistrictName(Get(address, "district")),
       normalizeDistrictName(Get(address, "city")),
       Suffixed(normalizeDistrictName(Get(address, "state"))),
       Suffixed(normalizeDistrictName(Get(address, "country"))) >>

FirstNonEmpty(slugs) ==
    IF \A i \in 1..Len(slugs) : slugs[i] = Null THEN Null
    ELSE slugs[CHOOSE i \in 1..Len(slugs) :
                   slugs[i] # Null /\ \A j \in 1..(i - 1) : slugs[j] = Null]

C13_FirstNonEmptyCandidateWins ==
    (probe.calls = 1 /\ probe.address # Undefined) =>
        probe.district = FirstNonEmpty(CandidateSlugs(probe.address))

\* the same statement for the addresses whose district field is absent or
\* normalizes to a non-empty slug
FirstNonEmptyWinsWhenDistrictUsable ==
    ( /\ probe.calls = 1 /\ probe.address # Undefined
      /\ Get(probe.address, "district") # Str(Codes("!!!")) ) =>
        probe.district = FirstNonEmpty(CandidateSlugs(probe.address))

(***************************************************************************)
(* C14  Under Strategy B, when two requests for the same rounded           *)
(* coordinate run concurrently and both miss the cache, both issue their   *)
(* own upstream look-up, and once both have completed the cache holds      *)
(* exactly one entry for that key and both requests agree on the district, *)
(* which is the cached one.  Stated as the claim, at the step in which the *)
(* second of the two completes: it found no entry when it arrived, and the *)
(* entry the first one stored meanwhile is still there.  The code lets     *)
(* each request return its own reply's district.                           *)
(***************************************************************************)
\* r2 is in its look-up, having missed, and r1 stored its entry meanwhile
MissedConcurrently(r1, r2) ==
    /\ strategy = "B" /\ r1 # r2
    /\ req[r2].pc \in {"fetching", "parsing"}
    /\ req[r2].cached = Undefined
    /\ req[r1].source = "nominatim"
    /\ req[r2].cacheKey = KeyOf(req[r1])
    /\ KeyOf(req[r1]) \in DOMAIN cache
    /\ cache[KeyOf(req[r1])] = Entry(req[r1].district.v, req[r1].message.timestamp)

C14_ConcurrentMissesConverge ==
    [][ \A r1, r2 \in Requests :
            (MissedConcurrently(r1, r2) /\ Resolves(r2)) =>
                /\ req'[r1].fetches = 1 /\ req'[r2].fetches = 1
                /\ KeyOf(req'[r1]) \in DOMAIN cache'
                /\ req'[r2].district = req'[r1].district
                /\ req'[r2].district = Str(cache'[KeyOf(req'[r1])].district)
      ]_vars

\* what does hold: each of the two issued its own look-up, and the entry
\* under the key afterwards is the one of the request that stored last
ConcurrentMissesLastWriterWins ==
    [][ \A r1, r2 \in Requests :
            (MissedConcurrently(r1, r2) /\ Resolves(r2)) =>
                /\ req'[r1].fetches = 1 /\ req'[r2].fetches = 1
                /\ KeyOf(req'[r1]) \in DOMAIN cache'
                /\ req'[r2].source = "nominatim" =>
                       req'[r2].district = Str(cache'[KeyOf(req'[r1])].district)
                /\ req'[r2].source # "nominatim" =>
                       /\ req'[r2].district = Str(DEFAULT_DISTRICT)
                       /\ req'[r1].district = Str(cache'[KeyOf(req'[r1])].district)
      ]_vars

(***************************************************************************)
(* C15  Under Strategy B a look-up that ends with provenance 'error' or    *)
(* 'nominatim-fallback' returns 'unknown' and leaves the cache exactly as  *)
(* it was: no entry is inserted, replaced or removed, a stale entry under  *)
(* the same key included; only a look-up ending with provenance            *)
(* 'nominatim' writes the cache.                                           *)
(***************************************************************************)
C15_FailedLookupLeavesCache ==
    [][ /\ \A r \in Requests :
            ( /\ strategy = "B" /\ Resolves(r)
              /\ req'[r].source \in {"error", "nominatim-fallback"} ) =>
                /\ req'[r].district = Str("unknown")
                /\ req[r].fetches = 1
                /\ cache' = cache
                /\ others' = others
        /\ (cache' # cache \/ others' # others) =>
              \/ \E r \in Requests : Resolves(r) /\ req'[r].source = "nominatim"
              \/ req' = req /\ others' > 0
      ]_vars

\* a look-up refetched the entry another one had stored 12 hours before and
\* ended with 'nominatim-fallback'; the stale entry is still stored
C15_Witness ==
    /\ strategy = "B"
    /\ \E r1, r2 \in Requests :
        /\ req[r1].source = "nominatim"
        /\ req[r2].source = "nominatim-fallback"
        /\ req[r2].district = Str("unknown")
        /\ req[r2].fetches = 1
        /\ KeyOf(req[r2]) = KeyOf(req[r1])
        /\ KeyOf(req[r1]) \in DOMAIN cache
        /\ cache[KeyOf(req[r1])] = Entry(req[r1].district.v, 0)
        /\ req[r2].message.timestamp = TwelveHours

(***************************************************************************)
(* C16  Under Strategy B the cache's size is bounded after any sequence    *)
(* and interleaving of look-ups: an insertion made while the cache holds   *)
(* more than 1000 entries first empties it, so that it holds exactly one   *)
(* entry afterwards; an insertion made otherwise adds at most one entry;   *)
(* the size check and the insertion are one step; and the cache never      *)
(* holds more than 1001 entries.                                           *)
(***************************************************************************)
C16_CacheSizeBounded ==
    /\ [](CacheSize(cache, others) <= 1001)
    /\ [][ (strategy = "B" /\ (cache' # cache \/ others' # others)) =>
              IF CacheSize(cache, others) > 1000
              THEN CacheSize(cache', others') = 1
              ELSE /\ CacheSize(cache', others') \in
                          {CacheSize(cache, others), CacheSize(cache, others) + 1}
                   /\ DOMAIN cache \subseteq DOMAIN cache'
                   /\ others' >= others
         ]_vars

\* a look-up stored the 1001st entry, and the next insertion, under another
\* key, emptied the cache first: its entry is the only one
C16_Witness ==
    /\ strategy = "B"
    /\ \E r1, r2 \in Requests :
        /\ req[r1].source = "nominatim" /\ req[r2].source = "nominatim"
        /\ KeyOf(req[r1]) # KeyOf(req[r2])
        /\ KeyOf(req[r1]) \notin DOMAIN cache
        /\ KeyOf(req[r2]) \in DOMAIN cache
        /\ CacheSize(cache, others) = 1

\* the cache holds 1001 entries
CacheAtItsLargest == CacheSize(cache, others) = 1001

(***************************************************************************)
(* C17  Under Strategy A getDistrictFromCoordinates equals a first-match-  *)
(* wins evaluation of one declared sequence with inclusive bounds: the     *)
(* simulator rectangle (returning 'bengaluru_urban'), the named city       *)
(* rectangles in table order, the four regional rectangles in the order    *)
(* karnataka, maharashtra, tamil_nadu, delhi_ncr, then 'india_general'.    *)
(* So a coordinate in a city rectangle and in a regional rectangle gets    *)
(* the city identifier, a coordinate in two regional rectangles gets the   *)
(* earlier one, and a coordinate outside every rectangle 'india_general'.  *)
(***************************************************************************)
SimulatorRectangle == <<Box("bengaluru_urban", 3780, 3770, -12230, -12250)>>

RegionalRectangles ==
    << Box("karnataka_general", 1850, 1150, 7850, 7400),
       Box("maharashtra_general", 2200, 1550, 8050, 7250),
       Box("tamil_nadu_general", 1350, 800, 8050, 7650),
       Box("delhi_ncr_general", 2900, 2800, 7750, 7650) >>

DeclaredSequence == SimulatorRectangle \o districtBounds \o RegionalRectangles

\* latitude and longitude, in 1e-5 degree, within the inclusive bounds of b
Inside(la, lo, b) == la >= b.south /\ la <= b.north /\ lo >= b.west /\ lo <= b.east

Matches(la, lo, rects) == {i \in 1..Len(rects) : Inside(la, lo, rects[i])}

FirstMatch(la, lo) ==
    IF Matches(la, lo, DeclaredSequence) = {} THEN "india_general"
    ELSE DeclaredSequence[CHOOSE i \in Matches(la, lo, DeclaredSequence) :
                              \A j \in Matches(la, lo, DeclaredSequence) : i <= j].name

C17_FirstMatchWins ==
    probe.district # "" =>
        LET la == probe.latitude
            lo == probe.longitude
            cities == Matches(la, lo, SimulatorRectangle \o districtBounds)
            regions == Matches(la, lo, RegionalRectangles)
        IN  /\ probe.district = FirstMatch(la, lo)
            /\ (cities # {} /\ regions # {}) =>
                  \E i \in cities :
                      probe.district = (SimulatorRectangle \o districtBounds)[i].name
            /\ (cities = {} /\ regions # {}) =>
                  \E i \in regions :
                      /\ probe.district = RegionalRectangles[i].name
                      /\ \A j \in regions : i <= j
            /\ (cities = {} /\ regions = {}) => probe.district = "india_general"

\* a coordinate on the south edge of the Maharashtra rectangle, inside the
\* Karnataka rectangle and in no city rectangle, resolved to karnataka_general
C17_Witness ==
    /\ probe.district = "karnataka_general"
    /\ probe.latitude = Hundredths(1550)
    /\ Matches(probe.latitude, probe.longitude, RegionalRectangles) = {1, 2}
    /\ Matches(probe.latitude, probe.longitude, SimulatorRectangle \o districtBounds) = {}

\* a coordinate in a city rectangle and in a regional rectangle got the city
CityBeforeRegion ==
    /\ probe.district = "mysuru"
    /\ 1 \in Matches(probe.latitude, probe.longitude, RegionalRectangles)

\* a coordinate outside every rectangle got india_general
OutsideEveryRectangle ==
    /\ probe.district = "india_general"
    /\ Matches(probe.latitude, probe.longitude, DeclaredSequence) = {}

====
